---- MODULE Spec2Model ----
(***************************************************************************)
(* KeyVaultSetting (azure-keyvault-administration, _models.py): the        *)
(* constructor's value / setting_type normalisation, the getboolean        *)
(* accessor and the _from_generated adapter.                               *)
(*                                                                         *)
(* Python values are tagged records [kind, s, b]: a str carries its        *)
(* characters in s (a sequence of one-character strings), a bool carries   *)
(* its truth value in b, None carries nothing.                             *)
(***************************************************************************)
EXTENDS Integers, Sequences, FiniteSets, TLC

VARIABLES self, args, ctor, orig, rebuilt, ret, op

vars == <<self, args, ctor, orig, rebuilt, ret, op>>

(* ---------------------------------------------------------------------- *)
(* Bounds of the input space                                               *)
(* ---------------------------------------------------------------------- *)

\* the largest number of upper-case characters in an input string
MaxUpper == 2

(* ---------------------------------------------------------------------- *)
(* Python values                                                           *)
(* ---------------------------------------------------------------------- *)

\* string literals of the source, as character sequences
lit_true == <<"t","r","u","e">>

lit_false == <<"f","a","l","s","e">>

lit_boolean == <<"b","o","o","l","e","a","n">>

None == [kind |-> "None", s |-> <<>>, b |-> FALSE]

Str(chars) == [kind |-> "str", s |-> chars, b |-> FALSE]

Bool(v) == [kind |-> "bool", s |-> <<>>, b |-> v]

\* KeyVaultSettingType.BOOLEAN: the canonical boolean tag, a value of the
\* enumeration and not a string
KeyVaultSettingType_BOOLEAN == [kind |-> "KeyVaultSettingType", s |-> lit_boolean, b |-> FALSE]

\* `x == KeyVaultSettingType.BOOLEAN`: exact comparison against the tag
EqBOOLEAN(x) == x.kind = "KeyVaultSettingType" /\ x.s = KeyVaultSettingType_BOOLEAN.s

isinstance_str(x) == x.kind = "str"

isinstance_bool(x) == x.kind = "bool"

\* str(value) of a value that is not a str: "True" / "False" for a bool
str(x) ==
    IF x.kind = "bool"
    THEN Str(IF x.b THEN <<"T","r","u","e">> ELSE <<"F","a","l","s","e">>)
    ELSE IF x.kind = "None" THEN Str(<<"N","o","n","e">>)
    ELSE Str(x.s)

UpperOf ==
    [c \in {"a","b","c","e","f","l","m","n","o","r","s","t","u","y"} |->
        CASE c = "a" -> "A" [] c = "b" -> "B" [] c = "c" -> "C" [] c = "e" -> "E"
          [] c = "f" -> "F" [] c = "l" -> "L" [] c = "m" -> "M" [] c = "n" -> "N"
          [] c = "o" -> "O" [] c = "r" -> "R" [] c = "s" -> "S" [] c = "t" -> "T"
          [] c = "u" -> "U" [] c = "y" -> "Y"]

LowerChars == DOMAIN UpperOf

UpperChars == {UpperOf[c] : c \in LowerChars}

\* str.lower() on one character
lower_char(c) ==
    IF c \in UpperChars THEN CHOOSE l \in LowerChars : UpperOf[l] = c ELSE c

\* str.lower(): character by character
lower(chars) == [i \in 1..Len(chars) |-> lower_char(chars[i])]

(* ---------------------------------------------------------------------- *)
(* KeyVaultSetting                                                         *)
(* ---------------------------------------------------------------------- *)

\* variant: the value of a boolean setting is never lower-cased
KeyVaultSetting_no_lower(name, value, setting_type) ==
    LET value1 == IF isinstance_str(value) THEN value ELSE str(value)
        type1  == IF EqBOOLEAN(setting_type)
                  THEN KeyVaultSettingType_BOOLEAN
                  ELSE IF isinstance_str(setting_type)
                       THEN Str(lower(setting_type.s))
                       ELSE setting_type
        type2  == IF type1 = None /\ isinstance_bool(value) THEN KeyVaultSettingType_BOOLEAN ELSE type1
    IN  [name |-> name, value |-> value1, setting_type |-> type2]

\* variant: the type is not set from the native type of `value`
KeyVaultSetting_no_inference(name, value, setting_type) ==
    LET value1 == IF isinstance_str(value) THEN value ELSE str(value)
        type1  == IF EqBOOLEAN(setting_type)
                  THEN KeyVaultSettingType_BOOLEAN
                  ELSE IF isinstance_str(setting_type)
                       THEN Str(lower(setting_type.s))
                       ELSE setting_type
        value2 == IF EqBOOLEAN(type1) THEN Str(lower(value1.s)) ELSE value1
    IN  [name |-> name, value |-> value2, setting_type |-> type1]

\* variant: the type is inferred from the content of the stored string
KeyVaultSetting_infer_content(name, value, setting_type) ==
    LET value1 == IF isinstance_str(value) THEN value ELSE str(value)
        type1  == IF EqBOOLEAN(setting_type)
                  THEN KeyVaultSettingType_BOOLEAN
                  ELSE IF isinstance_str(setting_type)
                       THEN Str(lower(setting_type.s))
                       ELSE setting_type
        type2  == IF type1 = None /\ lower(value1.s) \in {lit_true, lit_false}
                  THEN KeyVaultSettingType_BOOLEAN ELSE type1
        value2 == IF EqBOOLEAN(type2) THEN Str(lower(value1.s)) ELSE value1
    IN  [name |-> name, value |-> value2, setting_type |-> type2]

\* variant: the value is lower-cased before the type is inferred from `value`
KeyVaultSetting_reordered(name, value, setting_type) ==
    LET value1 == IF isinstance_str(value) THEN value ELSE str(value)
        type1  == IF EqBOOLEAN(setting_type)
                  THEN KeyVaultSettingType_BOOLEAN
                  ELSE IF isinstance_str(setting_type)
                       THEN Str(lower(setting_type.s))
                       ELSE setting_type
        value2 == IF EqBOOLEAN(type1) THEN Str(lower(value1.s)) ELSE value1
        type2  == IF type1 = None /\ isinstance_bool(value) THEN KeyVaultSettingType_BOOLEAN ELSE type1
    IN  [name |-> name, value |-> value2, setting_type |-> type2]

\* variant: a string setting_type is stored as given
KeyVaultSetting_type_verbatim(name, value, setting_type) ==
    LET value1 == IF isinstance_str(value) THEN value ELSE str(value)
        type1  == IF EqBOOLEAN(setting_type)
                  THEN KeyVaultSettingType_BOOLEAN
                  ELSE setting_type
        type2  == IF type1 = None /\ isinstance_bool(value) THEN KeyVaultSettingType_BOOLEAN ELSE type1
        value2 == IF EqBOOLEAN(type2) THEN Str(lower(value1.s)) ELSE value1
    IN  [name |-> name, value |-> value2, setting_type |-> type2]

\* variant: a string setting_type is lower-cased before the comparison with
\* the tag, and the string "boolean" is taken for the tag
KeyVaultSetting_case_insensitive(name, value, setting_type) ==
    LET value1 == IF isinstance_str(value) THEN value ELSE str(value)
        type1  == IF EqBOOLEAN(setting_type)
                     \/ (isinstance_str(setting_type) /\ lower(setting_type.s) = lit_boolean)
                  THEN KeyVaultSettingType_BOOLEAN
                  ELSE IF isinstance_str(setting_type)
                       THEN Str(lower(setting_type.s))
                       ELSE setting_type
        type2  == IF type1 = None /\ isinstance_bool(value) THEN KeyVaultSettingType_BOOLEAN ELSE type1
        value2 == IF EqBOOLEAN(type2) THEN Str(lower(value1.s)) ELSE value1
    IN  [name |-> name, value |-> value2, setting_type |-> type2]

\* variant: the last step tests the `setting_type` argument, not self.setting_type
KeyVaultSetting_tests_argument(name, value, setting_type) ==
    LET value1 == IF isinstance_str(value) THEN value ELSE str(value)
        type1  == IF EqBOOLEAN(setting_type)
                  THEN KeyVaultSettingType_BOOLEAN
                  ELSE IF isinstance_str(setting_type)
                       THEN Str(lower(setting_type.s))
                       ELSE setting_type
        type2  == IF type1 = None /\ isinstance_bool(value) THEN KeyVaultSettingType_BOOLEAN ELSE type1
        value2 == IF EqBOOLEAN(setting_type) THEN Str(lower(value1.s)) ELSE value1
    IN  [name |-> name, value |-> value2, setting_type |-> type2]

\* KeyVaultSetting.__init__(name, value, setting_type)
KeyVaultSetting(name, value, setting_type) ==
    LET value1 == IF isinstance_str(value) THEN value ELSE str(value)
        type1  == IF EqBOOLEAN(setting_type)
                  THEN KeyVaultSettingType_BOOLEAN
                  ELSE IF isinstance_str(setting_type)
                       THEN Str(lower(setting_type.s))
                       ELSE setting_type
        type2  == IF type1 = None /\ isinstance_bool(value) THEN KeyVaultSettingType_BOOLEAN ELSE type1
        value2 == IF EqBOOLEAN(type2) THEN Str(lower(value1.s)) ELSE value1
    IN  [name |-> name, value |-> value2, setting_type |-> type2]

Return(v) == [kind |-> "return", b |-> v, exc |-> ""]

Raise(e) == [kind |-> "raise", b |-> FALSE, exc |-> e]

NoResult == [kind |-> "none", b |-> FALSE, exc |-> ""]

\* variant: any value other than "true" of a boolean setting reads as False
getboolean_coerce(obj) ==
    IF EqBOOLEAN(obj.setting_type) /\ obj.value = Str(lit_true)
    THEN Return(TRUE)
    ELSE IF EqBOOLEAN(obj.setting_type)
         THEN Return(FALSE)
         ELSE Raise("ValueError")

\* variant: the two results are exchanged
getboolean_swapped(obj) ==
    IF EqBOOLEAN(obj.setting_type) /\ obj.value = Str(lit_true)
    THEN Return(FALSE)
    ELSE IF EqBOOLEAN(obj.setting_type) /\ obj.value = Str(lit_false)
         THEN Return(TRUE)
         ELSE Raise("ValueError")

\* KeyVaultSetting.getboolean()
getboolean(obj) ==
    IF EqBOOLEAN(obj.setting_type) /\ obj.value = Str(lit_true)
    THEN Return(TRUE)
    ELSE IF EqBOOLEAN(obj.setting_type) /\ obj.value = Str(lit_false)
         THEN Return(FALSE)
         ELSE Raise("ValueError")

\* variant: the record's type is handed to the constructor as it is
_from_generated_no_tag(setting) ==
    KeyVaultSetting(setting.name, setting.value, setting.type)

\* KeyVaultSetting._from_generated(setting)
_from_generated(setting) ==
    LET setting_type == IF setting.type = Str(lit_boolean)
                        THEN KeyVaultSettingType_BOOLEAN
                        ELSE setting.type
    IN  KeyVaultSetting(setting.name, setting.value, setting_type)

(* ---------------------------------------------------------------------- *)
(* Inputs                                                                  *)
(* ---------------------------------------------------------------------- *)

\* every spelling of a lower-case word with at most MaxUpper upper-case letters
Spellings(w) ==
    { [i \in 1..Len(w) |-> IF i \in U THEN UpperOf[w[i]] ELSE w[i]] :
        U \in {V \in SUBSET (1..Len(w)) : Cardinality(V) <= MaxUpper} }

Names == {"AllowKeyManagementOperationsThroughARM", "other"}

ValueWords == {<<"t","r","u","e">>, <<"f","a","l","s","e">>, <<"y","e","s">>, <<>>}

TypeWords == {<<"b","o","o","l","e","a","n">>, <<"c","u","s","t","o","m">>}

StrValues == {Str(x) : x \in UNION {Spellings(w) : w \in ValueWords}}

StrTypes == {Str(x) : x \in UNION {Spellings(w) : w \in TypeWords}}

\* value: Union[str, bool]
Values == StrValues \cup {Bool(TRUE), Bool(FALSE)}

\* setting_type: Optional[Union[str, KeyVaultSettingType]]
SettingTypes == StrTypes \cup {None, KeyVaultSettingType_BOOLEAN}

\* the generated Setting record: type is a string or null, value a string
RawTypes == StrTypes \cup {None}

NoSetting == [name |-> "", value |-> None, setting_type |-> None]

(* ---------------------------------------------------------------------- *)
(* State machine                                                           *)
(* ---------------------------------------------------------------------- *)

Init ==
    /\ self = NoSetting
    /\ args = NoSetting
    /\ ctor = "none"
    /\ orig = NoSetting
    /\ rebuilt = FALSE
    /\ ret = NoResult
    /\ op = "none"

\* a caller constructs KeyVaultSetting(name, value, setting_type)
Construct ==
    /\ ctor = "none"
    /\ \E name \in Names, value \in Values, setting_type \in SettingTypes :
        /\ args' = [name |-> name, value |-> value, setting_type |-> setting_type]
        /\ self' = KeyVaultSetting(name, value, setting_type)
    /\ ctor' = "__init__"
    /\ op' = "__init__"
    /\ ret' = NoResult
    /\ UNCHANGED <<orig, rebuilt>>

\* the client converts a generated Setting record
FromGenerated ==
    /\ ctor = "none"
    /\ \E name \in Names, value \in StrValues, type \in RawTypes :
        /\ args' = [name |-> name, value |-> value, setting_type |-> type]
        /\ self' = _from_generated([name |-> name, value |-> value, type |-> type])
    /\ ctor' = "_from_generated"
    /\ op' = "_from_generated"
    /\ ret' = NoResult
    /\ UNCHANGED <<orig, rebuilt>>

\* a caller constructs a second setting from the fields of the first
Reconstruct ==
    /\ ctor # "none"
    /\ args' = [name |-> self.name, value |-> self.value, setting_type |-> self.setting_type]
    /\ self' = KeyVaultSetting(self.name, self.value, self.setting_type)
    /\ orig' = self
    /\ rebuilt' = TRUE
    /\ ctor' = "__init__"
    /\ op' = "__init__"
    /\ ret' = NoResult

\* a caller calls getboolean() on the setting
GetBoolean ==
    /\ ctor # "none"
    /\ ret' = getboolean(self)
    /\ op' = "getboolean"
    /\ UNCHANGED <<self, args, ctor, orig, rebuilt>>

Next == Construct \/ FromGenerated \/ Reconstruct \/ GetBoolean

Spec == Init /\ [][Next]_vars

(* ---------------------------------------------------------------------- *)
(* Properties                                                              *)
(* ---------------------------------------------------------------------- *)

Built == ctor # "none"

Called == ret.kind # "none"

NoUpper(chars) == \A i \in 1..Len(chars) : chars[i] \notin UpperChars

\* the string the constructor stores before any lower-casing (line 283)
Stored(value) == IF isinstance_str(value) THEN value ELSE str(value)

\* C1: whatever the constructor or _from_generated was given, the stored
\* value is a string and never a native boolean, and when the resulting
\* setting_type is the boolean tag the stored value has no upper-case
\* character (it equals its own lower-cased form).
C1_BooleanValueLowerCased ==
    Built =>
        /\ self.value.kind = "str"
        /\ EqBOOLEAN(self.setting_type) =>
              (NoUpper(self.value.s) /\ self.value.s = lower(self.value.s))

C1_Witness ==
    /\ Built
    /\ EqBOOLEAN(self.setting_type)
    /\ isinstance_str(args.value)
    /\ ~NoUpper(args.value.s)
    /\ NoUpper(self.value.s)

\* C2: a native boolean value with no explicit setting_type yields the
\* boolean tag and the value "true" for True, "false" for False.
C2_NativeBooleanInferred ==
    (ctor = "__init__" /\ isinstance_bool(args.value) /\ args.setting_type = None) =>
        /\ self.setting_type = KeyVaultSettingType_BOOLEAN
        /\ self.value = Str(IF args.value.b THEN lit_true ELSE lit_false)

C2_Witness ==
    /\ ctor = "__init__"
    /\ args.value = Bool(FALSE)
    /\ args.setting_type = None
    /\ self.value = Str(lit_false)
    /\ self.setting_type = KeyVaultSettingType_BOOLEAN

\* C3: a string value with no explicit setting_type leaves setting_type
\* unset and the value verbatim, whatever the string says.
C3_StringNeverInferred ==
    (ctor = "__init__" /\ isinstance_str(args.value) /\ args.setting_type = None) =>
        /\ self.setting_type = None
        /\ self.value = args.value

C3_Witness ==
    /\ ctor = "__init__"
    /\ args.value = Str(<<"T","r","u","e">>)
    /\ args.setting_type = None
    /\ self.setting_type = None
    /\ self.value = Str(<<"T","r","u","e">>)

\* C4: getboolean() raises ValueError whenever setting_type is not the
\* boolean tag, and whenever it is the tag but value is neither "true" nor
\* "false"; it returns only for those two values; and a call leaves name,
\* value and setting_type as they were.
C4_GetBooleanRaises ==
    /\ [](Called =>
            ((~EqBOOLEAN(self.setting_type) \/ self.value \notin {Str(lit_true), Str(lit_false)})
                <=> ret = Raise("ValueError")))
    /\ [][op' = "getboolean" => self' = self]_vars

C4_Witness ==
    /\ Called
    /\ op = "getboolean"
    /\ EqBOOLEAN(self.setting_type)
    /\ self.value = Str(<<"y","e","s">>)
    /\ ret = Raise("ValueError")

\* C5: on a setting whose setting_type is the boolean tag, getboolean()
\* returns True for the value "true" and False for the value "false".
C5_GetBooleanReturns ==
    (Called /\ EqBOOLEAN(self.setting_type)) =>
        /\ self.value = Str(lit_true) => ret = Return(TRUE)
        /\ self.value = Str(lit_false) => ret = Return(FALSE)

C5_Witness ==
    /\ Called
    /\ EqBOOLEAN(self.setting_type)
    /\ self.value = Str(lit_false)
    /\ ret = Return(FALSE)

\* C6: a setting constructed from the name, value and setting_type of a
\* constructed setting is identical to it, type representation included.
C6_RoundTrip ==
    rebuilt => self = orig

C6_Witness ==
    /\ rebuilt
    /\ self = orig
    /\ self.setting_type = KeyVaultSettingType_BOOLEAN
    /\ self.value = Str(lit_true)

\* C7 as stated: _from_generated maps type "boolean" to the boolean tag with
\* a lower-cased value, and carries any other type string unchanged into the
\* resulting setting_type, with name and value copied.
C7_Original ==
    ctor = "_from_generated" =>
        /\ args.setting_type = Str(lit_boolean) =>
              /\ self.setting_type = KeyVaultSettingType_BOOLEAN
              /\ self.value = Str(lower(args.value.s))
              /\ NoUpper(self.value.s)
        /\ (isinstance_str(args.setting_type) /\ args.setting_type # Str(lit_boolean)) =>
              /\ self.setting_type = args.setting_type
              /\ self.name = args.name
              /\ self.value = args.value

\* C7 (amended): _from_generated maps type "boolean" to the boolean tag with
\* a lower-cased value; any other type string reaches the resulting
\* setting_type lower-cased, with name and value copied.
C7_FromGenerated ==
    ctor = "_from_generated" =>
        /\ args.setting_type = Str(lit_boolean) =>
              /\ self.setting_type = KeyVaultSettingType_BOOLEAN
              /\ self.value = Str(lower(args.value.s))
              /\ NoUpper(self.value.s)
        /\ (isinstance_str(args.setting_type) /\ args.setting_type # Str(lit_boolean)) =>
              /\ self.setting_type = Str(lower(args.setting_type.s))
              /\ NoUpper(self.setting_type.s)
              /\ self.name = args.name
              /\ self.value = args.value

C7_Witness ==
    /\ ctor = "_from_generated"
    /\ args.setting_type = Str(<<"C","u","s","t","o","m">>)
    /\ self.setting_type = Str(<<"c","u","s","t","o","m">>)
    /\ args.value = Str(<<"T","r","u","e">>)
    /\ self.value = Str(<<"T","r","u","e">>)

\* C8: an explicit string setting_type, which does not match the boolean
\* tag, is stored lower-cased, and a string value is stored verbatim.
C8_CustomTypeLowerCased ==
    (ctor = "__init__" /\ isinstance_str(args.setting_type)
        /\ ~EqBOOLEAN(args.setting_type)) =>
        /\ self.setting_type = Str(lower(args.setting_type.s))
        /\ NoUpper(self.setting_type.s)
        /\ isinstance_str(args.value) => self.value = args.value

C8_Witness ==
    /\ ctor = "__init__"
    /\ args.setting_type = Str(<<"C","u","s","t","o","m">>)
    /\ self.setting_type = Str(<<"c","u","s","t","o","m">>)
    /\ args.value = Str(<<"T","r","u","e">>)
    /\ self.value = Str(<<"T","r","u","e">>)

\* C9: the string setting_type "Boolean" is stored as the string "boolean",
\* a custom type and not the boolean tag: the value is not lower-cased and
\* getboolean() raises ValueError.
C9_MixedCaseBooleanIsCustom ==
    (ctor = "__init__" /\ args.setting_type = Str(<<"B","o","o","l","e","a","n">>)) =>
        /\ self.setting_type = Str(lit_boolean)
        /\ ~EqBOOLEAN(self.setting_type)
        /\ self.value = Stored(args.value)
        /\ Called => ret = Raise("ValueError")

C9_Witness ==
    /\ ctor = "__init__"
    /\ args.setting_type = Str(<<"B","o","o","l","e","a","n">>)
    /\ args.value = Str(<<"T","r","u","e">>)
    /\ self.value = Str(<<"T","r","u","e">>)
    /\ ret = Raise("ValueError")

\* C10: for a native boolean b given with setting_type unset or the boolean
\* tag, getboolean() does not raise and returns b; and for any setting whose
\* resolved type is the boolean tag, getboolean() raises exactly when the
\* lower-cased input value is neither "true" nor "false".
C10_BooleanRoundTrip ==
    Called =>
        /\ (ctor = "__init__" /\ isinstance_bool(args.value)
              /\ args.setting_type \in {None, KeyVaultSettingType_BOOLEAN})
            => ret = Return(args.value.b)
        /\ EqBOOLEAN(self.setting_type) =>
              (ret.kind = "raise" <=>
                  lower(Stored(args.value).s) \notin {lit_true, lit_false})

C10_Witness ==
    /\ Called
    /\ ctor = "__init__"
    /\ args.value = Bool(TRUE)
    /\ args.setting_type = None
    /\ ret = Return(TRUE)

====
